---- MODULE Spec2Model ----
(***************************************************************************)
(* A model of seastar::fs::to_disk_buffer (src/src/fs/to_disk_buffer.hh):  *)
(* an aligned in-memory buffer that is appended to and flushed to a block  *)
(* device.  The state is the object's fields, the bytes of the allocation  *)
(* _buff points to, and the writes handed to the block device.             *)
(* The bootstrap of the metadata log, whose errors                         *)
(* src/include/seastar/fs/exceptions.hh declares, is modelled next to it   *)
(* as the state machine of the specification's section 4.4.                *)
(***************************************************************************)
EXTENDS Integers, Sequences, FiniteSets

(***************************************************************************)
(* Integer widths, scaled down.  disk_offset_t (uint64_t in the program)   *)
(* holds 0..DiskOffsetLimit-1 and wraps; size_t, the type of _buff.size()  *)
(* and of the unflushed range, holds 0..SizeLimit-1 (it is the narrower    *)
(* one on a 32-bit build, which is what lets init() see MAX_SIZE_TOO_BIG). *)
(***************************************************************************)
DiskOffsetLimit == 16
SizeLimit == 8

\* Bounds of the model: the successful init() calls and the device writes of
\* a run, taken together, and the length of one append.
MaxSteps == 4
MaxLen == 2
\* Bounds of the bootstrap: the clusters of the device, and the entries a
\* cluster holds, its closing marker included.
MaxClusters == 3
MaxEntries == 2

\* The calls init(aligned_max_size, alignment, cluster_beg_offset) is made
\* with.  Three are good: a cluster of three alignment units, a cluster that
\* reaches past the last disk offset, and one of a single, larger unit.
GoodInitCalls ==
    { <<6, 2, 2>>, <<4, 2, DiskOffsetLimit - 2>>, <<4, 4, 0>> }
\* The others break one or several of init()'s conditions.
BadInitCalls ==
    { <<4, 0, 0>>, <<6, 3, 0>>, <<6, 4, 0>>, <<4, 4, 2>>, <<SizeLimit, 4, 0>>,
      <<6, 4, 2>>, <<SizeLimit, 2, 3>>, <<5, 0, 3>>, <<DiskOffsetLimit - 1, 1, 0>> }
InitCalls == GoodInitCalls \cup BadInitCalls
\* Bytes.  temporary_buffer::aligned() returns uninitialised memory: every
\* byte of it holds Uninit, a value that is neither zero nor appended data, so
\* that no byte is zero or data unless the program wrote it.
Uninit == 170
DataBytes == {1}

VARIABLES
    _buff,                \* the bytes of the allocation _buff points to
    _max_size,
    _alignment,
    _cluster_beg_offset,
    _unflushed_data,      \* [beg, end): range of unflushed bytes in _buff
    allocs,               \* number of allocations made so far: names the current one
    issued,               \* the device.write calls made, in order
    aborted,              \* an assert() failed: the process is gone
    last_op               \* the last call and what it returned

\* The bootstrap of the metadata log.
VARIABLES
    state,                \* the state of the bootstrap's state machine
    error,                \* the error the bootstrap failed with, or "none"
    curr_cluster,         \* the cluster that is read and replayed, 0 before
    buffered,             \* the whole of curr_cluster has been read
    pos,                  \* entries of curr_cluster deserialised so far
    ml_clusters,          \* clusters of the metadata log
    dl_clusters,          \* clusters of the data log
    applied               \* the log entries applied to the namespace, in
                          \* order, each as <<cluster, position>>

boot_vars == <<state, error, curr_cluster, buffered, pos, ml_clusters,
               dl_clusters, applied>>

fields == <<_max_size, _alignment, _cluster_beg_offset, _unflushed_data>>
vars == <<_buff, _max_size, _alignment, _cluster_beg_offset, _unflushed_data,
          allocs, issued, aborted, last_op>>

----------------------------------------------------------------------------
(* seastar/fs/bitwise.hh: the helpers on unsigned integers.                 *)

RECURSIVE BitAnd(_, _)
BitAnd(a, b) ==
    IF a = 0 \/ b = 0 THEN 0
    ELSE (a % 2) * (b % 2) + 2 * BitAnd(a \div 2, b \div 2)

is_power_of_2(x) == x > 0 /\ BitAnd(x, x - 1) = 0

mod_by_power_of_2(a, b) == BitAnd(a, b - 1)

round_up_to_multiple_of_power_of_2(a, b) ==
    LET mod == mod_by_power_of_2(a, b)
    IN  IF mod = 0 THEN a ELSE (a - mod) + b

\* range<size_t>::size()
range_size(r) == r.end - r.beg

\* temporary_buffer<uint8_t>::aligned(alignment, size): fresh memory.  Byte
\* k of the buffer (from 0) is element k + 1 of the sequence.
aligned(alignment, size) == [k \in 1..size |-> Uninit]

\* std::memset(buf + beg, byte, n)
memset(buf, beg, byte, n) ==
    [k \in 1..Len(buf) |-> IF beg < k /\ k <= beg + n THEN byte ELSE buf[k]]

----------------------------------------------------------------------------
(* Construction: the default member initialisers.                          *)

\* The bootstrap before the mount is requested.
not_started ==
    /\ state = "NOT_STARTED"
    /\ error = "none"
    /\ curr_cluster = 0
    /\ buffered = FALSE
    /\ pos = 0
    /\ ml_clusters = {}
    /\ dl_clusters = {}
    /\ applied = <<>>

Init ==
    /\ not_started
    /\ _buff = <<>>
    /\ _max_size = 0
    /\ _alignment = 0
    /\ _cluster_beg_offset = 0
    /\ _unflushed_data = [beg |-> 0, end |-> 0]
    /\ allocs = 0
    /\ issued = <<>>
    /\ aborted = FALSE
    /\ last_op = [op |-> "constructor", ret |-> "ok"]

\* start_new_unflushed_data() and prepare_unflushed_data_for_flush(): the
\* base class's hooks do nothing.
start_new_unflushed_data(u) == u
prepare_unflushed_data_for_flush(u) == u

----------------------------------------------------------------------------
(* init(aligned_max_size, alignment, cluster_beg_offset)                    *)

\* An init() that does not compare the size with what size_t holds.
init_error_size_unchecked(aligned_max_size, alignment, cluster_beg_offset) ==
    IF ~is_power_of_2(alignment) THEN "ALIGNMENT_IS_NOT_2_POWER"
    ELSE IF mod_by_power_of_2(aligned_max_size, alignment) # 0
        THEN "MAX_SIZE_IS_NOT_ALIGNED"
    ELSE IF mod_by_power_of_2(cluster_beg_offset, alignment) # 0
        THEN "CLUSTER_BEG_OFFSET_IS_NOT_ALIGNED"
    ELSE "nullopt"

init_error(aligned_max_size, alignment, cluster_beg_offset) ==
    IF ~is_power_of_2(alignment) THEN "ALIGNMENT_IS_NOT_2_POWER"
    ELSE IF mod_by_power_of_2(aligned_max_size, alignment) # 0
        THEN "MAX_SIZE_IS_NOT_ALIGNED"
    ELSE IF mod_by_power_of_2(cluster_beg_offset, alignment) # 0
        THEN "CLUSTER_BEG_OFFSET_IS_NOT_ALIGNED"
    ELSE IF aligned_max_size > SizeLimit - 1 THEN "MAX_SIZE_TOO_BIG"
    ELSE "nullopt"

\* An init() that takes its arguments and a fresh buffer, and goes on with
\* the unflushed range it has.
init_unflushed_data_kept(aligned_max_size, alignment, cluster_beg_offset) ==
    /\ ~aborted
    /\ LET err == init_error(aligned_max_size, alignment, cluster_beg_offset)
       IN  IF err # "nullopt"
           THEN /\ UNCHANGED <<fields, _buff, allocs>>
                /\ last_op' = [op |-> "init", ret |-> err]
           ELSE /\ _max_size' = aligned_max_size
                /\ _alignment' = alignment
                /\ _cluster_beg_offset' = cluster_beg_offset
                /\ _unflushed_data' = start_new_unflushed_data(_unflushed_data)
                /\ _buff' = aligned(alignment, aligned_max_size)
                /\ allocs' = allocs + 1
                /\ last_op' = [op |-> "init", ret |-> "nullopt"]
    /\ UNCHANGED <<issued, aborted>>

init(aligned_max_size, alignment, cluster_beg_offset) ==
    /\ ~aborted
    /\ LET err == init_error(aligned_max_size, alignment, cluster_beg_offset)
       IN  IF err # "nullopt"
           THEN /\ UNCHANGED <<fields, _buff, allocs>>
                /\ last_op' = [op |-> "init", ret |-> err]
           ELSE /\ _max_size' = aligned_max_size
                /\ _alignment' = alignment
                /\ _cluster_beg_offset' = cluster_beg_offset
                /\ _unflushed_data' =
                       start_new_unflushed_data([beg |-> 0, end |-> 0])
                /\ _buff' = aligned(alignment, aligned_max_size)
                /\ allocs' = allocs + 1
                /\ last_op' = [op |-> "init", ret |-> "nullopt"]
    /\ UNCHANGED <<issued, aborted>>

----------------------------------------------------------------------------
(* bytes_left(), bytes_left_after_flush_if_done_now(): size_t results.      *)

bytes_left ==
    ((_max_size + DiskOffsetLimit - _unflushed_data.end) % DiskOffsetLimit)
        % SizeLimit

\* The capacity left now, the padding of a flush not counted.
bytes_left_padding_ignored ==
    ((_max_size + DiskOffsetLimit - _unflushed_data.end) % DiskOffsetLimit)
        % SizeLimit

bytes_left_after_flush_if_done_now ==
    ((_max_size + DiskOffsetLimit
        - round_up_to_multiple_of_power_of_2(_unflushed_data.end, _alignment))
            % DiskOffsetLimit) % SizeLimit

----------------------------------------------------------------------------
(* get_write(), acknowledge_write(len), and the caller's copy between them. *)

get_write == _unflushed_data.end

\* acknowledge_write() with its assert compiled out.
acknowledge_write_unchecked(len) ==
    /\ _unflushed_data' =
           [_unflushed_data EXCEPT !.end = _unflushed_data.end + len]
    /\ aborted' = FALSE
    /\ last_op' = [op |-> "acknowledge_write", ret |-> "ok"]

\* An acknowledge_write() that cuts an append that does not fit down to what
\* is left, instead of rejecting it.
acknowledge_write_saturating(len) ==
    /\ _unflushed_data' =
           [_unflushed_data EXCEPT
               !.end = IF len <= bytes_left THEN _unflushed_data.end + len
                       ELSE _max_size]
    /\ aborted' = FALSE
    /\ last_op' = [op |-> "acknowledge_write", ret |-> "ok"]

acknowledge_write(len) ==
    IF len <= bytes_left
    THEN /\ _unflushed_data' =
                [_unflushed_data EXCEPT !.end = _unflushed_data.end + len]
         /\ aborted' = FALSE
         /\ last_op' = [op |-> "acknowledge_write", ret |-> "ok"]
    ELSE /\ UNCHANGED _unflushed_data
         /\ aborted' = TRUE
         /\ last_op' = [op |-> "acknowledge_write", ret |-> "assert"]

\* A caller appends len bytes: it copies them to get_write() and then
\* acknowledges them.
append(len, byte) ==
    /\ ~aborted
    /\ _buff' = IF len <= bytes_left
                THEN memset(_buff, get_write, byte, len) ELSE _buff
    /\ acknowledge_write(len)
    /\ UNCHANGED <<_max_size, _alignment, _cluster_beg_offset, allocs, issued>>

----------------------------------------------------------------------------
(* flush_to_disk(device)                                                    *)

\* A flush that returns early whenever there is nothing unflushed.
flush_is_noop_when_empty == _unflushed_data.beg = _unflushed_data.end

\* A flush that returns early when the data has reached the end of the
\* buffer.
flush_is_noop_when_full == _unflushed_data.end = _max_size

\* The early return: nothing is left of the buffer.
flush_is_noop == _unflushed_data.beg = _max_size

\* A flush that writes the unflushed range as it is.
real_write_unrounded(u) == [beg |-> u.beg, end |-> u.end]

\* A flush that rounds up by adding a whole unit, also to an end that is
\* aligned already.
real_write_unit_added(u) ==
    [beg |-> u.beg,
     end |-> (u.end - mod_by_power_of_2(u.end, _alignment)) + _alignment]

\* The range of _buff handed to the device: the unflushed range u, its end
\* rounded up to the alignment.
real_write_range(u) ==
    [beg |-> u.beg,
     end |-> round_up_to_multiple_of_power_of_2(u.end, _alignment)]

\* The bytes between the end of the data and the end of the write.
padding_range(u, real_write) == [beg |-> u.end, end |-> real_write.end]

\* A flush that leaves the padding as it finds it.
pad_left_unwritten(buf, padding) == buf

\* Pad buffer with zeros till alignment.
pad_with_zeros(buf, padding) ==
    memset(buf, padding.beg, 0, range_size(padding))

\* A flush that moves the end of the unflushed range and leaves its beginning.
unflushed_beg_kept(real_write) ==
    start_new_unflushed_data([beg |-> real_write.beg, end |-> real_write.end])

\* A flush that leaves the unflushed range alone until its write completes.
unflushed_kept_until_completion(real_write) == _unflushed_data

\* A flush after which the unflushed range goes on where the data ended,
\* not at the rounded end of the write.
unflushed_continues_at_data_end(real_write) ==
    start_new_unflushed_data(
        [beg |-> _unflushed_data.end, end |-> _unflushed_data.end])

\* The unflushed range the buffer continues with.
unflushed_after_flush(real_write) ==
    start_new_unflushed_data([beg |-> real_write.end, end |-> real_write.end])

\* A write sent to the beginning of the cluster whatever it holds.
device_write_at_cluster_beg(real_write) ==
    [off     |-> _cluster_beg_offset % DiskOffsetLimit,
     mem     |-> allocs,
     ptr     |-> real_write.beg,
     size    |-> range_size(real_write),
     pending |-> TRUE]

\* A write of the data alone, without its padding.
device_write_unpadded(real_write) ==
    [off     |-> (_cluster_beg_offset + real_write.beg) % DiskOffsetLimit,
     mem     |-> allocs,
     ptr     |-> real_write.beg,
     size    |-> _unflushed_data.end - real_write.beg,
     pending |-> TRUE]

\* device.write(_cluster_beg_offset + real_write.beg,
\*              _buff.get_write() + real_write.beg, real_write.size()):
\* the disk offset (a disk_offset_t), the memory it reads (allocation mem,
\* from byte ptr on), its length, and whether it is still in flight.
device_write(real_write) ==
    [off     |-> (_cluster_beg_offset + real_write.beg) % DiskOffsetLimit,
     mem     |-> allocs,
     ptr     |-> real_write.beg,
     size    |-> range_size(real_write),
     pending |-> TRUE]

flush_to_disk ==
    /\ ~aborted
    /\ IF flush_is_noop
       THEN /\ UNCHANGED <<_buff, _unflushed_data, issued, aborted>>
            /\ last_op' = [op |-> "flush_to_disk", ret |-> "now"]
       ELSE LET u == prepare_unflushed_data_for_flush(_unflushed_data) IN
            IF mod_by_power_of_2(u.beg, _alignment) # 0
            THEN /\ UNCHANGED <<_buff, _unflushed_data, issued>>
                 /\ aborted' = TRUE
                 /\ last_op' = [op |-> "flush_to_disk", ret |-> "assert"]
            ELSE LET real_write == real_write_range(u)
                     padding == padding_range(u, real_write)
                 IN  /\ _buff' = pad_with_zeros(_buff, padding)
                     /\ _unflushed_data' = unflushed_after_flush(real_write)
                     /\ issued' = Append(issued, device_write(real_write))
                     /\ UNCHANGED aborted
                     /\ last_op' = [op |-> "flush_to_disk", ret |-> "write"]
    /\ UNCHANGED <<_max_size, _alignment, _cluster_beg_offset, allocs>>

\* A continuation that does not look at what the device reports.
write_completes_unchecked(i, written_bytes) ==
    /\ ~aborted
    /\ i \in 1..Len(issued)
    /\ issued[i].pending
    /\ written_bytes \in 0..issued[i].size
    /\ issued' = [issued EXCEPT ![i].pending = FALSE]
    /\ last_op' = [op |-> "write_completes", ret |-> "ok"]
    /\ UNCHANGED <<fields, _buff, allocs, aborted>>

\* The device completes write i, reporting written_bytes: the continuation
\* of flush_to_disk resolves the flush's future.
write_completes(i, written_bytes) ==
    /\ ~aborted
    /\ i \in 1..Len(issued)
    /\ issued[i].pending
    /\ written_bytes \in 0..issued[i].size
    /\ LET res == IF written_bytes # issued[i].size
                  THEN "Partial write" ELSE "ok"
       IN  /\ issued' = [issued EXCEPT ![i].pending = FALSE]
           /\ last_op' = [op |-> "write_completes", ret |-> res]
    /\ UNCHANGED <<fields, _buff, allocs, aborted>>

----------------------------------------------------------------------------
(* The bootstrap: replay of the metadata log (specification, 4.2 and 4.4).  *)
(* What a read of the device returns and what the entries of a cluster are   *)
(* is the device's choice, made when the bootstrap gets to them.             *)

\* bootstrap_exception::what() of the errors a bootstrap fails with.
ml_cluster_loop_exception ==
    "Cannot bootstrap already bootstrapped metadata log cluster"
failed_ml_cluster_read_exception ==
    "Failed to read whole cluster of the metadata log"
ml_invalid_entry_exception == "Invalid metadata log entry"
ml_and_dl_overlap ==
    "Metadata log and data log use the same cluster (it is forbidden)"

ClusterIds == 1..MaxClusters
\* The entries a cluster may hold: namespace mutations (those that extend a
\* file name the data-log cluster of the extent), the markers that close a
\* cluster (a continuation names the next cluster), and entries of no known
\* kind.  Cluster MaxClusters + 1 is a reference out of range.
Entries ==
    { [kind |-> "mutation", cluster |-> 0],
      [kind |-> "terminal", cluster |-> 0],
      [kind |-> "unknown", cluster |-> 0] }
    \cup { [kind |-> k, cluster |-> c] :
               k \in {"extend", "continuation"}, c \in 1..(MaxClusters + 1) }
Markers == { e \in Entries : e.kind \in {"continuation", "terminal"} }

\* Structural validation accepts everything.
is_valid_entry_unchecked(e) == TRUE

\* Structural validation of an entry: a known kind, references in range.
is_valid_entry(e) ==
    /\ e.kind # "unknown"
    /\ e.kind \in {"extend", "continuation"} => e.cluster \in ClusterIds

\* The entries that may come next in curr_cluster: a marker closes every
\* cluster, so that its last place holds a marker or something invalid.
NextEntries ==
    IF pos + 1 < MaxEntries THEN Entries
    ELSE { e \in Entries : e \in Markers \/ ~is_valid_entry(e) }

\* A check of the two logs that finds them disjoint whatever they are.
validate_disjoint_skipped == TRUE

\* Cluster Allocator validate_disjoint(): the clusters of the metadata log
\* and those of the data log do not intersect.
validate_disjoint == ml_clusters \cap dl_clusters = {}

\* The mount request.  A log that is marked as bootstrapped is not replayed.
mount(start, marked) ==
    /\ state = "NOT_STARTED"
    /\ IF marked
       THEN /\ state' = "FAILED"
            /\ error' = ml_cluster_loop_exception
            /\ UNCHANGED curr_cluster
       ELSE /\ state' = "READING_CLUSTER"
            /\ curr_cluster' = start
            /\ UNCHANGED error
    /\ UNCHANGED <<buffered, pos, ml_clusters, dl_clusters, applied>>

\* READING_CLUSTER: the read of the whole of curr_cluster; full tells
\* whether the device returned all of it.
read_cluster(full) ==
    /\ state = "READING_CLUSTER"
    /\ ~buffered
    /\ IF curr_cluster \in ml_clusters
       THEN /\ state' = "FAILED"
            /\ error' = ml_cluster_loop_exception
            /\ UNCHANGED <<buffered, ml_clusters>>
       ELSE IF ~full
       THEN /\ state' = "TRUNCATED"
            /\ error' = failed_ml_cluster_read_exception
            /\ UNCHANGED <<buffered, ml_clusters>>
       ELSE /\ buffered' = TRUE
            /\ ml_clusters' = ml_clusters \cup {curr_cluster}
            /\ UNCHANGED <<state, error>>
    /\ UNCHANGED <<curr_cluster, pos, dl_clusters, applied>>

\* A replay that passes over an entry it cannot validate.
skip_entry ==
    /\ pos' = pos + 1
    /\ UNCHANGED <<state, error, curr_cluster, buffered, ml_clusters,
                   dl_clusters, applied>>

\* An entry fails structural validation: the replay stops.
reject_entry ==
    /\ state' = "INVALID"
    /\ error' = ml_invalid_entry_exception
    /\ UNCHANGED <<curr_cluster, buffered, pos, ml_clusters, dl_clusters,
                   applied>>

\* A namespace mutation is applied.
apply_entry(e) ==
    /\ applied' = Append(applied, <<curr_cluster, pos + 1>>)
    /\ dl_clusters' = IF e.kind = "extend"
                      THEN dl_clusters \cup {e.cluster} ELSE dl_clusters
    /\ pos' = pos + 1
    /\ UNCHANGED <<state, error, curr_cluster, buffered, ml_clusters>>

\* The next entry of the cluster that was read, e, is deserialised,
\* validated and replayed.
replay_entry(e) ==
    /\ state = "READING_CLUSTER"
    /\ buffered
    /\ e \in NextEntries
    /\ IF ~is_valid_entry(e) THEN reject_entry
       ELSE IF e.kind = "continuation"
       THEN /\ state' = "VALID_CONTINUE"
            /\ curr_cluster' = e.cluster
            /\ buffered' = FALSE
            /\ pos' = 0
            /\ UNCHANGED <<error, ml_clusters, dl_clusters, applied>>
       ELSE IF e.kind = "terminal"
       THEN /\ IF validate_disjoint
               THEN state' = "DONE" /\ UNCHANGED error
               ELSE state' = "FAILED" /\ error' = ml_and_dl_overlap
            /\ UNCHANGED <<curr_cluster, buffered, pos, ml_clusters,
                           dl_clusters, applied>>
       ELSE apply_entry(e)

\* VALID_CONTINUE: on to the cluster the continuation marker named.
next_cluster ==
    /\ state = "VALID_CONTINUE"
    /\ state' = "READING_CLUSTER"
    /\ UNCHANGED <<error, curr_cluster, buffered, pos, ml_clusters,
                   dl_clusters, applied>>

\* INVALID, TRUNCATED: the mount is aborted.
abort_mount ==
    /\ state \in {"INVALID", "TRUNCATED"}
    /\ state' = "FAILED"
    /\ UNCHANGED <<error, curr_cluster, buffered, pos, ml_clusters,
                   dl_clusters, applied>>

----------------------------------------------------------------------------
\* What of the bound a run has used.
steps == allocs + Len(issued)

Next ==
    \/ \E c \in InitCalls :
           /\ steps < MaxSteps /\ init(c[1], c[2], c[3])
           /\ UNCHANGED boot_vars
    \/ \E len \in 0..MaxLen, byte \in DataBytes :
           append(len, byte) /\ UNCHANGED boot_vars
    \/ /\ (steps < MaxSteps \/ flush_is_noop) /\ flush_to_disk
       /\ UNCHANGED boot_vars
    \/ \E i \in 1..Len(issued), n \in 0..SizeLimit :
           write_completes(i, n) /\ UNCHANGED boot_vars

\* The buffer, with no bootstrap going on.
Spec == Init /\ [][Next]_<<vars, boot_vars>>

\* The bootstrap, next to a buffer that is not used.
BootNext ==
    \/ \E start \in ClusterIds, marked \in BOOLEAN :
           mount(start, marked) /\ UNCHANGED vars
    \/ \E full \in BOOLEAN : read_cluster(full) /\ UNCHANGED vars
    \/ \E e \in Entries : replay_entry(e) /\ UNCHANGED vars
    \/ (next_cluster /\ UNCHANGED vars)
    \/ (abort_mount /\ UNCHANGED vars)

BootSpec == Init /\ [][BootNext]_<<vars, boot_vars>>

----------------------------------------------------------------------------
(* Properties.  A write is current when it was issued since the last        *)
(* successful init(), that is, from the allocation _buff points to now.     *)

Writes == 1..Len(issued)
SameInit(i, j) == issued[i].mem = issued[j].mem
\* The disk offsets write i covers.
DiskBytes(i) ==
    { (issued[i].off + k) % DiskOffsetLimit : k \in 0..(issued[i].size - 1) }
\* The cluster [_cluster_beg_offset, _cluster_beg_offset + _max_size) lies
\* within the disk offsets: the offsets of its bytes do not wrap.
ClusterFits == _cluster_beg_offset + _max_size <= DiskOffsetLimit

\* C1, as claimed: whatever happens between two flushes (appends, re-inits),
\* the range written by each flush begins exactly at the rounded-up end of the
\* range written by the previous one (offsets taken, as the program computes
\* them, modulo the width of disk_offset_t), and written ranges never overlap.
C1_AnyFlushesContiguous ==
    /\ \A i \in Writes : i > 1 =>
           issued[i].off =
               (issued[i - 1].off + issued[i - 1].size) % DiskOffsetLimit
    /\ \A i, j \in Writes : i < j => DiskBytes(i) \cap DiskBytes(j) = {}

\* C1, amended: between two successful inits, the write of each flush begins
\* in the buffer exactly at the rounded-up end of the previous flush's write,
\* and on the disk at the offset that follows the previous write's last byte
\* (modulo the width of disk_offset_t); the ranges written between two inits
\* never overlap, and none begins before the previous one ends unless the
\* cluster's offsets wrap.
C1_FlushesContiguousBetweenInits ==
    /\ \A i \in Writes : (i > 1 /\ SameInit(i - 1, i)) =>
           /\ issued[i].ptr = issued[i - 1].ptr + issued[i - 1].size
           /\ issued[i].off =
                  (issued[i - 1].off + issued[i - 1].size) % DiskOffsetLimit
           /\ (ClusterFits /\ issued[i].mem = allocs) =>
                  issued[i].off = issued[i - 1].off + issued[i - 1].size
    /\ \A i, j \in Writes : (i < j /\ SameInit(i, j)) =>
           DiskBytes(i) \cap DiskBytes(j) = {}

\* Two flushes between two inits, each of them writing data.
C1_Witness ==
    \E i \in Writes :
        /\ i > 1 /\ SameInit(i - 1, i)
        /\ issued[i - 1].size > 0 /\ issued[i].size > 0

\* C3, as claimed: every write of the instance starts at a strictly greater
\* disk offset than every write it issued earlier.
C3_OffsetsStrictlyIncrease ==
    \A i, j \in Writes : i < j => issued[j].off > issued[i].off

\* C3, amended: between two successful inits every write starts, in the
\* buffer, at or after the end of every earlier write, so strictly after any
\* earlier write of non-zero length; its disk offset is the earlier write's
\* plus that distance (modulo the width of disk_offset_t), so that, when
\* the cluster's offsets do not wrap, disk offsets never decrease and are
\* strictly greater than those of earlier writes of non-zero length.
C3_OffsetsIncreaseBetweenInits ==
    \A i, j \in Writes : (i < j /\ SameInit(i, j)) =>
        /\ issued[j].ptr >= issued[i].ptr + issued[i].size
        /\ issued[j].off =
               (issued[i].off + (issued[j].ptr - issued[i].ptr)) % DiskOffsetLimit
        /\ (ClusterFits /\ issued[j].mem = allocs) =>
               /\ issued[j].off >= issued[i].off + issued[i].size
               /\ issued[i].size > 0 => issued[j].off > issued[i].off

\* A later write of the same init at a greater disk offset, both in flight.
C3_Witness ==
    \E i, j \in Writes :
        /\ i < j /\ SameInit(i, j) /\ issued[j].mem = allocs /\ ClusterFits
        /\ issued[j].off > issued[i].off
        /\ issued[i].pending /\ issued[j].pending

\* C2, as claimed: a flush of an empty unflushed range (beg = end, also when
\* beg < max_size) issues no device write and completes immediately.
C2_EmptyFlushIssuesNoWrite ==
    [][(flush_to_disk /\ _unflushed_data.beg = _unflushed_data.end) =>
          (issued' = issued /\ last_op'.ret = "now")]_vars

\* C2, amended: a flush of a buffer whose unflushed range begins at max_size
\* (nothing is left of the buffer, so the range is empty) issues no device
\* write, completes immediately and changes nothing; a flush of an empty range
\* that begins before max_size issues one device write, of length zero, at
\* cluster_beg_offset + beg, and leaves the range as it is.
C2_NoopFlushOnlyAtMaxSize ==
    [][flush_to_disk =>
          /\ _unflushed_data.beg = _max_size =>
                 /\ issued' = issued
                 /\ last_op'.ret = "now"
                 /\ UNCHANGED <<fields, _buff, allocs, aborted>>
          /\ (_unflushed_data.beg = _unflushed_data.end
                  /\ _unflushed_data.beg < _max_size) =>
                 /\ Len(issued') = Len(issued) + 1
                 /\ issued'[Len(issued')].size = 0
                 /\ issued'[Len(issued')].off =
                        (_cluster_beg_offset + _unflushed_data.beg)
                            % DiskOffsetLimit
                 /\ issued'[Len(issued')].pending
                 /\ last_op'.ret = "write"
                 /\ UNCHANGED <<fields, _buff>>]_vars

\* A flush returned at once on an initialised buffer all of which is flushed.
C2_Witness ==
    /\ last_op = [op |-> "flush_to_disk", ret |-> "now"]
    /\ _max_size > 0
    /\ _unflushed_data = [beg |-> _max_size, end |-> _max_size]
    /\ \E i \in Writes : issued[i].mem = allocs /\ issued[i].size > 0

\* The conditions of init(), as the specification words them, and the errors
\* of those that a call breaks.
IsPowerOfTwo(x) == \E k \in 0..DiskOffsetLimit : x = 2 ^ k
IsMultipleOf(x, a) == \E q \in 0..x : x = q * a
BrokenConditions(aligned_max_size, alignment, cluster_beg_offset) ==
    (IF IsPowerOfTwo(alignment) THEN {} ELSE {"ALIGNMENT_IS_NOT_2_POWER"})
    \cup (IF IsMultipleOf(aligned_max_size, alignment) THEN {}
          ELSE {"MAX_SIZE_IS_NOT_ALIGNED"})
    \cup (IF IsMultipleOf(cluster_beg_offset, alignment) THEN {}
          ELSE {"CLUSTER_BEG_OFFSET_IS_NOT_ALIGNED"})
    \cup (IF aligned_max_size <= SizeLimit - 1 THEN {} ELSE {"MAX_SIZE_TOO_BIG"})
DiskOffsets == 0..(DiskOffsetLimit - 1)

\* C4: init() succeeds exactly when its arguments break none of the four
\* conditions; when they break some, it fails with the error of a condition
\* they break (ALIGNMENT_IS_NOT_2_POWER, MAX_SIZE_IS_NOT_ALIGNED,
\* CLUSTER_BEG_OFFSET_IS_NOT_ALIGNED or MAX_SIZE_TOO_BIG), and the failing
\* call leaves max size, alignment, base offset, unflushed range and memory as
\* they were.
C4_InitFailsSpecificallyAndChangesNothing ==
    /\ \A ms \in DiskOffsets, al \in DiskOffsets, off \in DiskOffsets :
           LET broken == BrokenConditions(ms, al, off)
               err == init_error(ms, al, off)
           IN  /\ broken = {} <=> err = "nullopt"
               /\ broken # {} => err \in broken
    /\ [][\A c \in InitCalls :
              (last_op'.op = "init" /\ init(c[1], c[2], c[3])) =>
              LET broken == BrokenConditions(c[1], c[2], c[3])
              IN  /\ broken = {} <=> last_op'.ret = "nullopt"
                  /\ broken # {} =>
                         /\ last_op'.ret \in broken
                         /\ UNCHANGED <<fields, _buff, allocs, issued>>]_vars

\* An init() failed for a size that size_t does not hold, on a buffer that
\* holds unflushed data and has a write in flight.
C4_Witness ==
    /\ last_op = [op |-> "init", ret |-> "MAX_SIZE_TOO_BIG"]
    /\ _unflushed_data.end > _unflushed_data.beg
    /\ \E i \in Writes : issued[i].mem = allocs /\ issued[i].pending

\* C5: as soon as flush_to_disk has returned, and so while its write is still
\* in flight, the unflushed range is the empty range at the write's rounded
\* end; all the time a write of the current buffer is in flight the unflushed
\* range lies at or after its end, and an append of any length that fits and
\* a further flush can be performed, however many writes are in flight.
C5_BufferUsableWhileFlushesInFlight ==
    /\ (last_op = [op |-> "flush_to_disk", ret |-> "write"]) =>
           LET w == issued[Len(issued)]
           IN  /\ w.pending
               /\ _unflushed_data =
                      [beg |-> w.ptr + w.size, end |-> w.ptr + w.size]
    /\ \A i \in Writes : (issued[i].pending /\ issued[i].mem = allocs) =>
           issued[i].ptr + issued[i].size <= _unflushed_data.beg
    /\ ~aborted =>
           /\ ENABLED flush_to_disk
           /\ \A len \in 0..bytes_left, byte \in DataBytes :
                  ENABLED (append(len, byte) /\ ~aborted')

\* Data appended after two flushes, the writes of both still in flight.
C5_Witness ==
    /\ \E i, j \in Writes :
           /\ i < j /\ issued[i].mem = allocs /\ issued[j].mem = allocs
           /\ issued[i].pending /\ issued[j].pending
           /\ issued[i].size > 0 /\ issued[j].size > 0
    /\ _unflushed_data.end > _unflushed_data.beg
    /\ last_op.op = "acknowledge_write"

\* The least multiple of a that is at least x.
RoundUp(x, a) == CHOOSE m \in x..(x + a - 1) : IsMultipleOf(m, a)
\* The write the step issues.
NewWrite == issued'[Len(issued')]

\* C6: every flush that is not a no-op issues exactly one device write; it
\* covers the buffer bytes [unflushed.beg, round_up(unflushed.end, alignment))
\* and goes to disk offset cluster_beg_offset + unflushed.beg (a
\* disk_offset_t).
C6_FlushIssuesOneWriteOfTheRoundedRange ==
    [][(flush_to_disk /\ _unflushed_data.beg # _max_size) =>
          /\ Len(issued') = Len(issued) + 1
          /\ SubSeq(issued', 1, Len(issued)) = issued
          /\ NewWrite.mem = allocs
          /\ NewWrite.ptr = _unflushed_data.beg
          /\ NewWrite.ptr + NewWrite.size =
                 RoundUp(_unflushed_data.end, _alignment)
          /\ NewWrite.off =
                 (_cluster_beg_offset + _unflushed_data.beg) % DiskOffsetLimit
          /\ NewWrite.pending]_vars

\* A flush has just written a range that begins inside the buffer, of a
\* length greater than that of the data.
C6_Witness ==
    /\ last_op = [op |-> "flush_to_disk", ret |-> "write"]
    /\ LET w == issued[Len(issued)]
       IN  /\ w.ptr > 0 /\ w.size > 0
           /\ w.off = _cluster_beg_offset + w.ptr
           /\ _buff[w.ptr + 1] \in DataBytes
           /\ _buff[w.ptr + w.size] = 0

\* C7: every device write the buffer issues has a disk offset and a length
\* that are multiples of the alignment.
C7_WritesAreAligned ==
    \A i \in Writes : issued[i].mem = allocs =>
        /\ IsMultipleOf(issued[i].off, _alignment)
        /\ IsMultipleOf(issued[i].size, _alignment)

\* A write of more than one alignment unit, not at offset 0, is in flight.
C7_Witness ==
    \E i \in Writes :
        /\ issued[i].mem = allocs /\ issued[i].pending
        /\ issued[i].size > _alignment /\ issued[i].off > 0

\* C8: in the write a flush issues, the bytes between the end of the appended
\* data and the alignment-rounded end of the write are all zero.
C8_PaddingIsZero ==
    [][(flush_to_disk /\ _unflushed_data.beg # _max_size) =>
          /\ Len(issued') = Len(issued) + 1
          /\ \A k \in _unflushed_data.end..(NewWrite.ptr + NewWrite.size - 1) :
                 _buff'[k + 1] = 0]_vars

\* The last write ends with padding, in a buffer whose memory after the
\* write has never been written.
C8_Witness ==
    /\ last_op = [op |-> "flush_to_disk", ret |-> "write"]
    /\ LET w == issued[Len(issued)]
       IN  /\ w.size > 1
           /\ _buff[w.ptr + w.size] = 0
           /\ _buff[w.ptr + w.size - 1] \in DataBytes
           /\ w.ptr + w.size < _max_size
           /\ _buff[w.ptr + w.size + 1] = Uninit

\* C9, as claimed (of an initialised buffer): bytes_left() is max_size -
\* unflushed.end and never underflows, and every append of len bytes decreases
\* it strictly, by len.
C9_AppendStrictlyDecreasesBytesLeft ==
    /\ [](bytes_left = _max_size - _unflushed_data.end)
    /\ [][\A len \in 0..(MaxLen + 1), byte \in DataBytes :
              (last_op'.op = "acknowledge_write" /\ allocs > 0
                  /\ append(len, byte) /\ ~aborted') =>
                  /\ bytes_left' = bytes_left - len
                  /\ bytes_left' < bytes_left]_vars

\* C9, amended: bytes_left() is max_size - unflushed.end and never underflows;
\* every append of len bytes that passes the assertion decreases it by exactly
\* len, so strictly when len > 0, while an append of no bytes leaves it as it
\* is.
C9_AppendDecreasesBytesLeftByLen ==
    /\ [](bytes_left = _max_size - _unflushed_data.end)
    /\ [][\A len \in 0..(MaxLen + 1), byte \in DataBytes :
              (last_op'.op = "acknowledge_write" /\ append(len, byte)
                  /\ ~aborted') =>
                  /\ bytes_left' = bytes_left - len
                  /\ len > 0 => bytes_left' < bytes_left
                  /\ len = 0 => bytes_left' = bytes_left]_vars

\* An append after a flush, with room left.
C9_Witness ==
    /\ last_op = [op |-> "acknowledge_write", ret |-> "ok"]
    /\ _unflushed_data.beg > 0
    /\ _unflushed_data.end > _unflushed_data.beg
    /\ bytes_left > 0

\* C10: on an initialised buffer, what bytes_left_after_flush_if_done_now()
\* returns in a state is what bytes_left() returns right after a
\* flush_to_disk() made in that state.
C10_BytesLeftAfterFlushIsForeseen ==
    [][(flush_to_disk /\ allocs > 0) =>
          bytes_left' = bytes_left_after_flush_if_done_now]_vars

\* A flush has just padded its write, and room is left after it.
C10_Witness ==
    /\ last_op = [op |-> "flush_to_disk", ret |-> "write"]
    /\ allocs > 0
    /\ bytes_left > 0 /\ bytes_left < _max_size
    /\ _buff[_unflushed_data.beg] = 0
    /\ \E k \in 1.._unflushed_data.beg : _buff[k] \in DataBytes

\* C11: when the device completes a flush's write reporting fewer bytes than
\* were requested, the flush fails with the error "Partial write"; the
\* unflushed range, the buffer and its memory stay as they are (nothing is
\* rolled back) and no write is issued again.  A write reported whole
\* completes the flush without error.
C11_PartialWriteFailsTheFlush ==
    [][\A i \in Writes, n \in 0..SizeLimit :
          (last_op'.op = "write_completes" /\ write_completes(i, n)) =>
              /\ n < issued[i].size => last_op'.ret = "Partial write"
              /\ n = issued[i].size => last_op'.ret = "ok"
              /\ UNCHANGED <<fields, _buff, allocs, aborted>>
              /\ Len(issued') = Len(issued)
              /\ \A j \in Writes :
                     issued'[j] =
                         IF j = i THEN [issued[j] EXCEPT !.pending = FALSE]
                         ELSE issued[j]]_vars

\* A write has completed partially after data was appended behind it, while
\* a later write of the same buffer is still in flight.
C11_Witness ==
    /\ last_op = [op |-> "write_completes", ret |-> "Partial write"]
    /\ _unflushed_data.beg > 0
    /\ _unflushed_data.end > _unflushed_data.beg
    /\ \E i, j \in Writes :
           /\ i < j /\ issued[i].mem = allocs /\ issued[j].mem = allocs
           /\ ~issued[i].pending /\ issued[i].size > 0
           /\ issued[j].pending

\* C12: an append of more bytes than bytes_left() fails the assertion of
\* acknowledge_write: the process stops there, and neither the unflushed
\* range nor anything else changes, then or later; the end of the unflushed
\* range never exceeds max_size.
C12_AppendOverCapacityIsRejected ==
    /\ [](_unflushed_data.end <= _max_size)
    /\ [][\A len \in 0..(MaxLen + 1), byte \in DataBytes :
              (last_op'.op = "acknowledge_write" /\ append(len, byte)
                  /\ len > bytes_left) =>
                  /\ aborted'
                  /\ last_op'.ret = "assert"
                  /\ UNCHANGED <<fields, _buff, allocs, issued>>]_vars
    /\ [][aborted => UNCHANGED vars]_vars

\* An append of more than the room that was left has been rejected, on a
\* buffer that holds unflushed data.
C12_Witness ==
    /\ aborted
    /\ last_op = [op |-> "acknowledge_write", ret |-> "assert"]
    /\ _unflushed_data.end > _unflushed_data.beg
    /\ bytes_left > 0

\* C13: a successful init(), the first one or one made after appends and
\* flushes, sets max size, alignment and base offset to its arguments, takes
\* a fresh buffer of max size bytes and makes the unflushed range [0, 0), so
\* that bytes_left() is max_size.
C13_InitResetsTheBuffer ==
    [][\A c \in InitCalls :
          (last_op'.op = "init" /\ init(c[1], c[2], c[3])
              /\ last_op'.ret = "nullopt") =>
              /\ _max_size' = c[1]
              /\ _alignment' = c[2]
              /\ _cluster_beg_offset' = c[3]
              /\ _unflushed_data' = [beg |-> 0, end |-> 0]
              /\ bytes_left' = c[1]
              /\ bytes_left_after_flush_if_done_now' = c[1]
              /\ Len(_buff') = c[1]
              /\ allocs' = allocs + 1]_vars

\* A buffer has been initialised again after it was appended to and flushed,
\* the write of that flush being in flight.
C13_Witness ==
    /\ last_op = [op |-> "init", ret |-> "nullopt"]
    /\ allocs > 1
    /\ _unflushed_data = [beg |-> 0, end |-> 0]
    /\ bytes_left = _max_size
    /\ \E i \in Writes :
           issued[i].mem = allocs - 1 /\ issued[i].size > 0 /\ issued[i].pending

\* The entries that fail structural validation, in the specification's
\* words: an unknown kind, or a reference to a cluster out of range.
Malformed(e) ==
    \/ e.kind \notin {"mutation", "extend", "continuation", "terminal"}
    \/ e.kind \in {"extend", "continuation"} /\ e.cluster > MaxClusters

\* C14: the replay stops at the first entry that fails structural
\* validation: the bootstrap then has the error "Invalid metadata log entry",
\* goes to INVALID and from there to FAILED and nowhere else, and from that
\* entry on nothing is applied to the namespace, no entry is deserialised and
\* no cluster is read.
C14_ReplayStopsAtFirstInvalidEntry ==
    /\ [][\A e \in Entries :
              (replay_entry(e) /\ Malformed(e)) =>
                  /\ state' = "INVALID"
                  /\ error' = ml_invalid_entry_exception
                  /\ UNCHANGED <<applied, dl_clusters, ml_clusters, pos,
                                 curr_cluster>>]_boot_vars
    /\ [][(error = ml_invalid_entry_exception) =>
              /\ state \in {"INVALID", "FAILED"}
              /\ state' \in {"INVALID", "FAILED"}
              /\ UNCHANGED <<error, applied, dl_clusters, ml_clusters, pos,
                             curr_cluster, buffered>>]_boot_vars
    /\ [](state = "INVALID" => error = ml_invalid_entry_exception)
    /\ [](error = ml_invalid_entry_exception =>
              ~ENABLED (\E e \in Entries : replay_entry(e)))

\* The bootstrap has failed at an invalid entry of the second cluster of a
\* log, after it applied an entry of the first, and entries of the cluster
\* come after the invalid one.
C14_Witness ==
    /\ state = "FAILED"
    /\ error = ml_invalid_entry_exception
    /\ Cardinality(ml_clusters) = 2
    /\ Len(applied) > 0
    /\ applied[1][1] # curr_cluster
    /\ pos + 1 < MaxEntries

\* C15: at the terminal marker, when every cluster has been replayed, the
\* bootstrap ends in DONE when the clusters of the metadata log and those of
\* the data log are disjoint, and otherwise in FAILED with the overlap error,
\* every entry of the log having passed validation; it is never in DONE with
\* intersecting sets, and the overlap error is raised for no other reason.
C15_OverlapFailsTheBootstrap ==
    /\ [][\A e \in Entries :
              (replay_entry(e) /\ e.kind = "terminal") =>
                  IF ml_clusters \cap dl_clusters # {}
                  THEN state' = "FAILED" /\ error' = ml_and_dl_overlap
                  ELSE state' = "DONE" /\ error' = "none"]_boot_vars
    /\ [](state = "DONE" =>
              (ml_clusters \cap dl_clusters = {} /\ error = "none"))
    /\ [](error = ml_and_dl_overlap =>
              (state = "FAILED" /\ ml_clusters \cap dl_clusters # {}))
    /\ [][(state \in {"DONE", "FAILED"}) => UNCHANGED boot_vars]_boot_vars

\* A log of two clusters, all of whose entries are valid, names one of its
\* own clusters as the cluster of a data extent: the bootstrap has failed
\* with the overlap error.
C15_Witness ==
    /\ state = "FAILED"
    /\ error = ml_and_dl_overlap
    /\ Cardinality(ml_clusters) = 2
    /\ Len(applied) > 0
    /\ dl_clusters \subseteq ml_clusters

\* C16: in every reachable state unflushed.beg <= unflushed.end <= max_size
\* and unflushed.beg is a multiple of the alignment (of the buffer that was
\* never initialised, whose alignment is 0, all of these are 0), so that the
\* assertion of flush_to_disk holds wherever a flush gets to it, and has
\* failed in no run.
C16_UnflushedRangeIsAlignedAndBounded ==
    /\ _unflushed_data.beg <= _unflushed_data.end
    /\ _unflushed_data.end <= _max_size
    /\ IsMultipleOf(_unflushed_data.beg, _alignment)
    /\ mod_by_power_of_2(_unflushed_data.beg, _alignment) = 0
    /\ last_op # [op |-> "flush_to_disk", ret |-> "assert"]

\* A flush has passed the assertion with a range that begins inside the
\* buffer, after the padding of an earlier flush, and holds data.
C16_Witness ==
    /\ last_op = [op |-> "flush_to_disk", ret |-> "write"]
    /\ ~aborted
    /\ LET w == issued[Len(issued)]
       IN  /\ w.mem = allocs
           /\ w.ptr > 0 /\ w.size > 0
           /\ _buff[w.ptr] = 0
           /\ _buff[w.ptr + 1] \in DataBytes
           /\ IsMultipleOf(w.ptr, _alignment)

\* The buffer bytes an in-flight device write reads.
Region(i) == issued[i].ptr..(issued[i].ptr + issued[i].size - 1)

\* C17: while a device write is in flight, the memory it reads from is
\* neither released (it is the allocation _buff points to) nor modified, by
\* an append, the padding of another flush or an init.
C17_InFlightMemoryIsNotTouched ==
    /\ [](\A i \in Writes : (issued[i].pending /\ issued[i].size > 0) =>
              issued[i].mem = allocs)
    /\ [][\A i \in Writes :
              (issued[i].pending /\ issued[i].size > 0
                  /\ issued[i].mem = allocs) =>
              /\ allocs' = allocs
              /\ \A k \in Region(i) : _buff'[k + 1] = _buff[k + 1]]_vars

\* C17, what holds of it: all the time the buffer is not initialised again,
\* no append and no padding writes to the memory a write in flight reads.
C17_AppendsAndPaddingKeepClear ==
    [][\A i \in Writes :
          (issued[i].pending /\ issued[i].mem = allocs /\ allocs' = allocs) =>
              \A k \in Region(i) : _buff'[k + 1] = _buff[k + 1]]_vars

\* The device after the writes of a sequence of writes, order, have completed
\* in that order: what each disk offset holds.  A write puts there the bytes
\* of its region of the buffer; of memory that was released nothing is known,
\* and of the device before the writes neither.
InFlight == { i \in Writes : issued[i].pending }
Orders(S) ==
    { o \in [1..Cardinality(S) -> S] :
          \A a, b \in 1..Cardinality(S) : a # b => o[a] # o[b] }
IssueOrder(S) ==
    CHOOSE o \in Orders(S) : \A a, b \in 1..Cardinality(S) : a < b => o[a] < o[b]
WriteByte(i, d) ==
    LET k == (d + DiskOffsetLimit - issued[i].off) % DiskOffsetLimit
    IN  IF issued[i].mem = allocs
        THEN <<"byte", _buff[issued[i].ptr + k + 1], 0>>
        ELSE <<"released", i, k>>
DeviceAfter(o) ==
    [d \in DiskOffsets |->
        LET ns == { n \in DOMAIN o : d \in DiskBytes(o[n]) }
        IN  IF ns = {} THEN <<"before", d, 0>>
            ELSE WriteByte(o[CHOOSE n \in ns : \A m \in ns : m <= n], d)]

\* C18: whatever the order in which the writes that are in flight at once
\* complete, the device ends up as if they had completed in the order of
\* their flushes: no two of them cover a common disk offset.
C18_CompletionOrderDoesNotMatter ==
    /\ \A o \in Orders(InFlight) :
           DeviceAfter(o) = DeviceAfter(IssueOrder(InFlight))
    /\ \A i, j \in InFlight : i # j => DiskBytes(i) \cap DiskBytes(j) = {}

\* C18, what holds of it: the writes in flight that were issued since the
\* same init cover disjoint disk offsets, and the device ends up the same
\* whatever the order they complete in.
C18_SameInitWritesDoNotOverlap ==
    \A m \in 1..allocs :
        LET S == { i \in InFlight : issued[i].mem = m }
        IN  /\ \A o \in Orders(S) : DeviceAfter(o) = DeviceAfter(IssueOrder(S))
            /\ \A i, j \in S : i # j => DiskBytes(i) \cap DiskBytes(j) = {}

\* The disk offsets of the cluster the buffer was initialised for.
ClusterBytes ==
    { (_cluster_beg_offset + k) % DiskOffsetLimit : k \in 0..(_max_size - 1) }

\* C19: every device write issued since the most recent successful init lies
\* inside the buffer, its end, rounded up to the alignment, being at most
\* max_size, and so inside the cluster [cluster_beg_offset,
\* cluster_beg_offset + max_size) on the device (offsets being taken modulo
\* the width of disk_offset_t when the cluster goes past the last one).
C19_WritesStayInsideTheCluster ==
    \A i \in Writes : issued[i].mem = allocs =>
        /\ issued[i].ptr + issued[i].size <= _max_size
        /\ issued[i].off = (_cluster_beg_offset + issued[i].ptr) % DiskOffsetLimit
        /\ DiskBytes(i) \subseteq ClusterBytes
        /\ ClusterFits =>
               /\ _cluster_beg_offset <= issued[i].off
               /\ issued[i].off + issued[i].size
                      <= _cluster_beg_offset + _max_size

\* A write whose data ended one byte short of max_size has been rounded up to
\* the very end of a cluster that does not begin at disk offset 0.
C19_Witness ==
    /\ last_op = [op |-> "flush_to_disk", ret |-> "write"]
    /\ _cluster_beg_offset > 0
    /\ ClusterFits
    /\ LET w == issued[Len(issued)]
       IN  /\ w.mem = allocs
           /\ w.ptr + w.size = _max_size
           /\ w.off + w.size = _cluster_beg_offset + _max_size
           /\ _buff[_max_size] = 0
           /\ _buff[_max_size - 1] \in DataBytes

\* The buffer bytes that hold appended data, and the writes that cover a byte.
Appended == { k \in 0..(_max_size - 1) : _buff[k + 1] \in DataBytes }
Covering(k) ==
    { i \in Writes : issued[i].mem = allocs /\ k \in Region(i) }

\* C20: since the last init, every appended byte that lies before the
\* unflushed range has been handed to the device in exactly one write, at
\* disk offset cluster_beg_offset plus its position in the buffer (a
\* disk_offset_t), and the bytes of the unflushed range in none; a flush
\* leaves no appended byte unflushed, so that after it every appended byte
\* has been sent exactly once.
C20_EveryAppendedByteIsSentOnce ==
    /\ [](allocs > 0 =>
             \A k \in Appended :
                 IF k < _unflushed_data.beg
                 THEN /\ Cardinality(Covering(k)) = 1
                      /\ \A i \in Covering(k) :
                             (issued[i].off + (k - issued[i].ptr))
                                 % DiskOffsetLimit
                             = (_cluster_beg_offset + k) % DiskOffsetLimit
                 ELSE /\ Covering(k) = {}
                      /\ k < _unflushed_data.end)
    /\ [][(flush_to_disk /\ allocs > 0) =>
              /\ _unflushed_data'.beg = _unflushed_data'.end
              /\ \A k \in Appended : k < _unflushed_data'.beg]_vars

\* Appends of three bytes or more have gone to the device in two flushes or
\* more; every write has completed, the last one whole, and nothing is
\* unflushed.
C20_Witness ==
    /\ last_op = [op |-> "write_completes", ret |-> "ok"]
    /\ _unflushed_data.beg = _unflushed_data.end
    /\ Cardinality({ i \in Writes : issued[i].mem = allocs /\ issued[i].size > 0 }) >= 2
    /\ \A i \in Writes : ~issued[i].pending
    /\ Cardinality(Appended) >= 3

====
